---- MODULE Spec2Model ----
(***************************************************************************)
(* Model of scripts/mediapipe_pose.py: a batch of frames is read from      *)
(* standard input, the pose detector is run on every frame that carries an *)
(* image, twelve named landmarks are extracted and clamped, and a single   *)
(* JSON document is printed.                                               *)
(*                                                                         *)
(* Python values are modelled as records with a fixed shape so that any    *)
(* two of them can be compared:                                            *)
(*   a coordinate   [k, v]     k = "None" | "nan" | "float"; v is the      *)
(*                             value in units of 1/Resolution              *)
(*   a landmark     [k, x, y]  k = "None" | "point" (detector side)        *)
(*   a pose value   [k, x, y]  k = "None" | "dict"  (output side)          *)
(***************************************************************************)
EXTENDS Integers, Sequences, FiniteSets, TLC

VARIABLES
    stdin,           \* the document on standard input
    pc,              \* position of the process in the script
    frames,          \* main: frames
    pose,            \* main: TRUE once solutions.pose.Pose(...) has returned
    out_frames,      \* main: out_frames
    origin,          \* for each entry of out_frames, the input position it was built from
    i,               \* number of loop iterations of "for frame in frames" started
    pose_landmarks,  \* main: pose_landmarks / the argument of extract_pose
    pose_ret,        \* the value returned by the last call of extract_pose
    exc,             \* the exception in flight ("" when none)
    stdout,          \* documents printed on standard output
    stderr,          \* lines printed on standard error
    exit_status,     \* "running", "0" or "1"
    calls            \* log of the calls made to the decoder and the detector

vars == <<stdin, pc, frames, pose, out_frames, origin, i, pose_landmarks,
          pose_ret, exc, stdout, stderr, exit_status, calls>>

----------------------------------------------------------------------------
(* Bounds of the model *)

MaxFrames == 2

MaxLandmarks == 30

Resolution == 2

----------------------------------------------------------------------------
(* Coordinates and landmarks *)

NoneCoord == [k |-> "None", v |-> 0]

NaN == [k |-> "nan", v |-> 0]

Num(n) == [k |-> "float", v |-> n]

\* the values a detector coordinate can take: None, NaN, and floats from
\* below 0 to above 1
CoordValues == {NoneCoord, NaN} \cup {Num(n) : n \in -1..(Resolution + 1)}

NoneLandmark == [k |-> "None", x |-> NoneCoord, y |-> NoneCoord]

Point(x, y) == [k |-> "point", x |-> x, y |-> y]

Landmarks == {NoneLandmark} \cup {Point(x, y) : x \in CoordValues, y \in CoordValues}

NonePose == [k |-> "None", x |-> NoneCoord, y |-> NoneCoord]

Dict(x, y) == [k |-> "dict", x |-> x, y |-> y]

\* Python's "value < n" and "value > n" on a float: every comparison with
\* NaN is False
FloatLess(value, n) == value.k = "float" /\ value.v < n * Resolution

FloatGreater(value, n) == value.k = "float" /\ value.v > n * Resolution

LANDMARK_INDEX ==
    [leftShoulder |-> 11, rightShoulder |-> 12,
     leftElbow |-> 13, rightElbow |-> 14,
     leftWrist |-> 15, rightWrist |-> 16,
     leftHip |-> 23, rightHip |-> 24,
     leftKnee |-> 25, rightKnee |-> 26,
     leftAnkle |-> 27, rightAnkle |-> 28]

clamp01(value) ==
    IF value.k = "None" THEN NoneCoord
    ELSE IF FloatLess(value, 0) THEN Num(0)
    ELSE IF FloatGreater(value, 1) THEN Num(Resolution)
    ELSE value

\* the argument of extract_pose: None, or the detector's landmark sequence
NoLandmarks == [isNone |-> TRUE, landmark |-> <<>>]

LandmarkSeq(s) == [isNone |-> FALSE, landmark |-> s]

\* "not pose_landmarks": None and the empty sequence are falsy
Falsy(pl) == pl.isNone \/ Len(pl.landmark) = 0

\* pose_landmarks[idx], Python's index counting from 0
Item(pl, idx) == pl.landmark[idx + 1]

extract_pose_OnlyDetected(pl) ==
    [name \in {n \in DOMAIN LANDMARK_INDEX :
                  ~(Falsy(pl) \/ LANDMARK_INDEX[n] >= Len(pl.landmark))} |->
        LET lm == Item(pl, LANDMARK_INDEX[name])
        IN  IF lm.k = "None" THEN NonePose
            ELSE Dict(clamp01(lm.x), clamp01(lm.y))]

extract_pose_AllOrNothing(pl) ==
    [name \in DOMAIN LANDMARK_INDEX |->
        IF Falsy(pl) \/ LANDMARK_INDEX.rightAnkle >= Len(pl.landmark)
        THEN NonePose
        ELSE LET lm == Item(pl, LANDMARK_INDEX[name])
             IN  IF lm.k = "None" THEN NonePose
                 ELSE Dict(clamp01(lm.x), clamp01(lm.y))]

extract_pose(pl) ==
    [name \in DOMAIN LANDMARK_INDEX |->
        LET idx == LANDMARK_INDEX[name]
        IN  IF Falsy(pl) \/ idx >= Len(pl.landmark)
            THEN NonePose
            ELSE LET lm == Item(pl, idx)
                 IN  IF lm.k = "None" THEN NonePose
                     ELSE Dict(clamp01(lm.x), clamp01(lm.y))]

EmptyPose == [name \in {} |-> NonePose]

\* a landmark sequence of the given length whose entries alternate a, b
LandmarkList(len, a, b) ==
    [p \in 1..len |-> IF p % 2 = 1 THEN a ELSE b]

----------------------------------------------------------------------------
(* extract_pose called on its own, on every landmark sequence of the bounds *)

InitPose ==
    /\ stdin = [kind |-> "none", framesKind |-> "absent", frames |-> <<>>]
    /\ pc = "call"
    /\ frames = <<>>
    /\ pose = FALSE
    /\ out_frames = <<>>
    /\ origin = <<>>
    /\ i = 0
    /\ pose_landmarks \in {NoLandmarks} \cup
          {LandmarkSeq(LandmarkList(len, a, b)) :
              len \in 0..MaxLandmarks, a \in Landmarks, b \in Landmarks}
    /\ pose_ret = EmptyPose
    /\ exc = ""
    /\ stdout = <<>>
    /\ stderr = <<>>
    /\ exit_status = "running"
    /\ calls = <<>>

CallExtractPose ==
    /\ pc = "call"
    /\ pose_ret' = extract_pose(pose_landmarks)
    /\ pc' = "returned"
    /\ UNCHANGED <<stdin, frames, pose, out_frames, origin, i, pose_landmarks,
                   exc, stdout, stderr, exit_status, calls>>

NextPose == CallExtractPose

SpecPose == InitPose /\ [][NextPose]_vars

----------------------------------------------------------------------------
(* The input document *)

\* JSON null after json.load, and the default of dict.get
PyNone == [t |-> "null", v |-> 0]

\* the "idx" member of a frame: absent, an integer, a string or null
IdxInputs ==
    {[t |-> "absent", v |-> 0], [t |-> "int", v |-> 1], [t |-> "str", v |-> 1], PyNone}

\* the "base64Image" member of a frame: absent, null, the empty string, a
\* string b64decode rejects, a string that decodes to bytes that are no
\* image, and a string that decodes to an image
ImageInputs == {"absent", "None", "", "malformed", "corrupt", "valid"}

\* a member of "frames" that is no JSON object
NonObjectFrame == [isObject |-> FALSE, idx |-> [t |-> "absent", v |-> 0], base64Image |-> "absent"]

Frames ==
    {NonObjectFrame} \cup
    {[isObject |-> TRUE, idx |-> id, base64Image |-> b] : id \in IdxInputs, b \in ImageInputs}

FrameSeqs == UNION {[1..n -> Frames] : n \in 0..MaxFrames}

\* standard input: text that is no JSON, a JSON value that is no object, or
\* an object whose "frames" member is absent, null or a list
Inputs ==
    {[kind |-> k, framesKind |-> "absent", frames |-> <<>>] : k \in {"invalid", "array"}}
    \cup {[kind |-> "object", framesKind |-> fk, frames |-> <<>>] : fk \in {"absent", "null"}}
    \cup {[kind |-> "object", framesKind |-> "list", frames |-> fs] : fs \in FrameSeqs}

\* payload.get("frames") or []
PayloadFrames(payload) ==
    IF payload.framesKind = "list" THEN payload.frames ELSE <<>>

FrameIdx_AsString(frame) ==
    IF frame.idx.t = "absent" THEN PyNone
    ELSE IF frame.idx.t = "int" THEN [t |-> "str", v |-> frame.idx.v]
    ELSE frame.idx

\* frame.get("idx")
FrameIdx(frame) ==
    IF frame.idx.t = "absent" THEN PyNone ELSE frame.idx

\* frame.get("base64Image")
FrameImage(frame) ==
    IF frame.base64Image = "absent" THEN "None" ELSE frame.base64Image

\* "if base64_image": None and the empty string are falsy
Truthy(base64_image) == base64_image \notin {"None", ""}

\* the exception decode_image raises on its argument ("" when it returns)
DecodeRaises(base64_image) ==
    CASE base64_image = "None" -> "TypeError"
      [] base64_image = "malformed" -> "binascii.Error"
      [] base64_image \in {"", "corrupt"} -> "UnidentifiedImageError"
      [] OTHER -> ""

----------------------------------------------------------------------------
(* The detector *)

NoResult == [isNone |-> TRUE, hasPose |-> FALSE, landmark |-> <<>>]

NoPoseResult == [isNone |-> FALSE, hasPose |-> FALSE, landmark |-> <<>>]

PoseResult(l) == [isNone |-> FALSE, hasPose |-> TRUE, landmark |-> l]

OutOfRangePoint == Point(Num(-1), Num(Resolution + 1))

OddPoint == Point(NaN, Num(1))

\* what pose.process may return: nothing, a result without pose_landmarks,
\* or a result with a landmark sequence that is empty, covers the shoulders
\* only, or covers every name
PoseResults ==
    {NoResult, NoPoseResult} \cup
    {PoseResult(LandmarkList(len, ab[1], ab[2])) :
        len \in {0, LANDMARK_INDEX.leftElbow, MaxLandmarks},
        ab \in {<<NoneLandmark, OutOfRangePoint>>, <<OutOfRangePoint, OddPoint>>}}

\* pose.process(image) raises, or returns a result
ProcessOutcomes ==
    {[raises |-> "RuntimeError", result |-> NoResult]} \cup
    {[raises |-> "", result |-> r] : r \in PoseResults}

FrameLandmarks_CarryOver(prev, base64_image, result) ==
    IF ~Truthy(base64_image) THEN prev
    ELSE IF ~result.isNone /\ result.hasPose THEN LandmarkSeq(result.landmark)
    ELSE NoLandmarks

FrameLandmarks_KeepLast(prev, base64_image, result) ==
    IF ~Truthy(base64_image) THEN NoLandmarks
    ELSE IF ~result.isNone /\ result.hasPose THEN LandmarkSeq(result.landmark)
    ELSE prev

\* pose_landmarks of one iteration: None, replaced by the detector's
\* landmark sequence when the frame has an image and a pose was detected
FrameLandmarks(prev, base64_image, result) ==
    IF Truthy(base64_image) /\ ~result.isNone /\ result.hasPose
    THEN LandmarkSeq(result.landmark)
    ELSE NoLandmarks

AppendResult_Front(seq, e) == <<e>> \o seq

\* out_frames.append(...)
AppendResult(seq, e) == Append(seq, e)

\* an entry of the call log: the function called, the position of the frame
\* it was called for (0: none), and how a call of the detector ended
Call(op, pos, ret) == [op |-> op, frame |-> pos, ret |-> ret]

\* how pose.process(image) ended: it raised, or returned nothing, a result
\* without pose_landmarks, or a result with pose_landmarks
ResultKind(outcome) ==
    IF outcome.raises # "" THEN "raised"
    ELSE IF outcome.result.isNone THEN "None"
    ELSE IF ~outcome.result.hasPose THEN "nopose"
    ELSE "pose"

DetectorCalls_Retry(pos, outcome) ==
    <<Call("process", pos, ResultKind(outcome)), Call("process", pos, ResultKind(outcome))>>

\* result = pose.process(image): the detector is called once
DetectorCalls(pos, outcome) == <<Call("process", pos, ResultKind(outcome))>>

----------------------------------------------------------------------------
(* The run of the script *)

Init ==
    /\ stdin \in Inputs
    /\ pc = "start"
    /\ frames = <<>>
    /\ pose = FALSE
    /\ out_frames = <<>>
    /\ origin = <<>>
    /\ i = 0
    /\ pose_landmarks = NoLandmarks
    /\ pose_ret = EmptyPose
    /\ exc = ""
    /\ stdout = <<>>
    /\ stderr = <<>>
    /\ exit_status = "running"
    /\ calls = <<>>

\* json.load(sys.stdin) and payload.get("frames") or []
ReadInput ==
    /\ pc = "start"
    /\ IF stdin.kind = "invalid"
       THEN /\ exc' = "JSONDecodeError"
            /\ pc' = "except"
            /\ UNCHANGED frames
       ELSE IF stdin.kind # "object"
       THEN /\ exc' = "AttributeError"
            /\ pc' = "except"
            /\ UNCHANGED frames
       ELSE /\ frames' = PayloadFrames(stdin)
            /\ pc' = "load"
            /\ UNCHANGED exc
    /\ UNCHANGED <<stdin, pose, out_frames, origin, i, pose_landmarks, pose_ret,
                   stdout, stderr, exit_status, calls>>

\* solutions.pose.Pose(...) returns the detector, or raises
LoadModel ==
    /\ pc = "load"
    /\ calls' = Append(calls, Call("Pose", 0, ""))
    /\ \/ /\ pose' = TRUE
          /\ pc' = "loop"
          /\ UNCHANGED exc
       \/ /\ exc' = "RuntimeError"
          /\ pc' = "except"
          /\ UNCHANGED pose
    /\ UNCHANGED <<stdin, frames, out_frames, origin, i, pose_landmarks, pose_ret,
                   stdout, stderr, exit_status>>

\* one iteration of "for frame in frames"
ProcessFrame ==
    /\ pc = "loop"
    /\ i < Len(frames)
    /\ i' = i + 1
    /\ LET frame == frames[i + 1]
       IN  IF ~frame.isObject
           THEN /\ exc' = "AttributeError"
                /\ pc' = "except"
                /\ UNCHANGED <<pose_landmarks, pose_ret, out_frames, origin, calls>>
           ELSE
             \E outcome \in ProcessOutcomes :
               LET idx == FrameIdx(frame)
                   base64_image == FrameImage(frame)
                   decoded == Truthy(base64_image)
                   decodeErr == IF decoded THEN DecodeRaises(base64_image) ELSE ""
                   processed == decoded /\ decodeErr = ""
                   err == IF processed THEN outcome.raises ELSE decodeErr
                   landmarks == FrameLandmarks(pose_landmarks, base64_image, outcome.result)
               IN  /\ calls' = calls
                         \o (IF decoded THEN <<Call("decode_image", i + 1, "")>> ELSE <<>>)
                         \o (IF processed THEN DetectorCalls(i + 1, outcome) ELSE <<>>)
                   /\ IF err # ""
                      THEN /\ exc' = err
                           /\ pc' = "except"
                           /\ pose_landmarks' = NoLandmarks
                           /\ UNCHANGED <<pose_ret, out_frames, origin>>
                      ELSE /\ pose_landmarks' = landmarks
                           /\ pose_ret' = extract_pose(landmarks)
                           /\ out_frames' = AppendResult(out_frames,
                                  [idx |-> idx, pose |-> extract_pose(landmarks)])
                           /\ origin' = AppendResult(origin, i + 1)
                           /\ UNCHANGED <<exc, pc>>
    /\ UNCHANGED <<stdin, frames, pose, stdout, stderr, exit_status>>

\* print(json.dumps({"frames": out_frames})) and the normal end of the script
PrintOutput ==
    /\ pc = "loop"
    /\ i = Len(frames)
    /\ stdout' = Append(stdout, out_frames)
    /\ exit_status' = "0"
    /\ pc' = "done"
    /\ UNCHANGED <<stdin, frames, pose, out_frames, origin, i, pose_landmarks,
                   pose_ret, exc, stderr, calls>>

HandleException_PartialOutput ==
    /\ pc = "except"
    /\ stdout' = Append(stdout, out_frames)
    /\ stderr' = Append(stderr, exc)
    /\ exit_status' = "1"
    /\ pc' = "done"
    /\ UNCHANGED <<stdin, frames, pose, out_frames, origin, i, pose_landmarks,
                   pose_ret, exc, calls>>

HandleException_NoExit ==
    /\ pc = "except"
    /\ stderr' = Append(stderr, exc)
    /\ exit_status' = "0"
    /\ pc' = "done"
    /\ UNCHANGED <<stdin, frames, pose, out_frames, origin, i, pose_landmarks,
                   pose_ret, exc, stdout, calls>>

\* except Exception as exc: print(str(exc), file=sys.stderr); sys.exit(1)
HandleException ==
    /\ pc = "except"
    /\ stderr' = Append(stderr, exc)
    /\ exit_status' = "1"
    /\ pc' = "done"
    /\ UNCHANGED <<stdin, frames, pose, out_frames, origin, i, pose_landmarks,
                   pose_ret, exc, stdout, calls>>

Next ==
    \/ ReadInput
    \/ LoadModel
    \/ ProcessFrame
    \/ PrintOutput
    \/ HandleException

Spec == Init /\ [][Next]_vars

\* the script runs to its end: no step that can be taken is put off forever
FairSpec == Spec /\ WF_vars(Next)

----------------------------------------------------------------------------
(* Vocabulary of the properties *)

\* the twelve landmark names of the output
KnownNames ==
    {"leftShoulder", "rightShoulder", "leftElbow", "rightElbow",
     "leftWrist", "rightWrist", "leftHip", "rightHip",
     "leftKnee", "rightKnee", "leftAnkle", "rightAnkle"}

AllNull(p) == \A name \in DOMAIN p : p[name].k = "None"

SomeDetected(p) == \E name \in DOMAIN p : p[name].k = "dict"

\* the input frames as they stand on standard input
InputFrames == stdin.frames

\* the frame supplies an image: base64Image is present, not null, not empty
SuppliesImage(frame) == frame.isObject /\ frame.base64Image \notin {"absent", "None", ""}

Succeeded == pc = "done" /\ exit_status = "0"

Failed == pc = "done" /\ exit_status = "1"

CallsOf(op, pos) == {c \in DOMAIN calls : calls[c].op = op /\ calls[c].frame = pos}

----------------------------------------------------------------------------
(* Properties of the frame loop *)

\* C1: when the run succeeds, the printed frames list has as many entries as
\* the input frames list, and its p-th entry was built from the p-th input
\* frame: nothing is dropped, duplicated or reordered.
C1_OutputMatchesInput ==
    Succeeded =>
        /\ Len(stdout) = 1
        /\ Len(stdout[1]) = Len(InputFrames)
        /\ Len(origin) = Len(InputFrames)
        /\ \A p \in 1..Len(origin) : origin[p] = p

\* a successful run over two frames, the first with an image and a detected
\* pose, the second without an image
C1_Witness ==
    /\ Succeeded
    /\ Len(InputFrames) = 2
    /\ InputFrames[1].base64Image = "valid"
    /\ InputFrames[2].base64Image = "absent"
    /\ SomeDetected(stdout[1][1].pose)
    /\ AllNull(stdout[1][2].pose)

\* C2: the idx of the p-th output entry is the idx of the p-th input frame,
\* with the same type and value (null when the frame has none), whether or
\* not the frame has an image or a pose is detected.
C2_IdxEchoed ==
    /\ Len(out_frames) <= Len(InputFrames)
    /\ \A p \in 1..Len(out_frames) :
          LET given == InputFrames[p].idx
          IN  IF given.t = "absent"
              THEN out_frames[p].idx = PyNone
              ELSE out_frames[p].idx = given
    /\ \A d \in DOMAIN stdout : stdout[d] = out_frames

\* a printed document echoing an integer idx of a frame with no image and a
\* string idx of a frame in which no pose was detected
C2_Witness ==
    /\ Succeeded
    /\ Len(InputFrames) = 2
    /\ InputFrames[1].idx = [t |-> "int", v |-> 1]
    /\ InputFrames[1].base64Image = ""
    /\ InputFrames[2].idx = [t |-> "str", v |-> 1]
    /\ InputFrames[2].base64Image = "valid"
    /\ \E c \in DOMAIN calls : calls[c].op = "process" /\ calls[c].ret = "nopose"
    /\ stdout[1][1].idx = [t |-> "int", v |-> 1]
    /\ stdout[1][2].idx = [t |-> "str", v |-> 1]

----------------------------------------------------------------------------
(* Properties of extract_pose *)

\* C3: the pose object extract_pose returns has exactly the twelve known
\* names as its keys, whatever the landmark sequence: missing, empty, of any
\* length, with absent entries.
C3_TwelveKeys ==
    pc = "returned" => DOMAIN pose_ret = KnownNames

\* extract_pose has returned on a sequence that covers the arms only and has
\* absent entries
C3_Witness ==
    /\ pc = "returned"
    /\ ~pose_landmarks.isNone
    /\ Len(pose_landmarks.landmark) = 20
    /\ pose_landmarks.landmark[12].k = "None"
    /\ pose_landmarks.landmark[13].k = "point"
    /\ DOMAIN pose_ret = KnownNames

InUnitRange(c) == c.k = "None" \/ (c.k = "float" /\ 0 <= c.v /\ c.v <= Resolution)

\* C4: every landmark of every output frame is null or has x and y in
\* [0,1] (or null), whatever coordinates the detector returned.
C4_CoordinatesInUnitRange ==
    \A p \in 1..Len(out_frames) : \A name \in DOMAIN out_frames[p].pose :
        LET lm == out_frames[p].pose[name]
        IN  lm.k = "None" \/ (InUnitRange(lm.x) /\ InUnitRange(lm.y))

\* the clamp of the specification: below 0 becomes 0, above 1 becomes 1,
\* values in [0,1] and null are unchanged
RefClamp(c) ==
    IF c.k = "None" THEN c
    ELSE IF c.v < 0 THEN Num(0)
    ELSE IF c.v > Resolution THEN Num(Resolution)
    ELSE c

\* C10: extract_pose decides each name on its own: the value is null exactly
\* when the sequence is missing or empty, too short for the name's index, or
\* absent at that index; otherwise it is {x, y} with each coordinate clamped
\* to [0,1] (null staying null).
C10_PerLandmark ==
    pc = "returned" =>
        \A name \in KnownNames :
            LET idx == LANDMARK_INDEX[name]
                seq == pose_landmarks.landmark
                missing == \/ pose_landmarks.isNone
                           \/ Len(seq) = 0
                           \/ idx >= Len(seq)
                           \/ seq[idx + 1].k = "None"
            IN  IF missing
                THEN pose_ret[name].k = "None"
                ELSE /\ pose_ret[name].k = "dict"
                     /\ seq[idx + 1].x.k # "nan" => pose_ret[name].x = RefClamp(seq[idx + 1].x)
                     /\ seq[idx + 1].y.k # "nan" => pose_ret[name].y = RefClamp(seq[idx + 1].y)

\* extract_pose has returned on a sequence long enough for the shoulders but
\* not for the hips, with out-of-range coordinates at the left shoulder
C10_Witness ==
    /\ pc = "returned"
    /\ ~pose_landmarks.isNone
    /\ Len(pose_landmarks.landmark) = 13
    /\ pose_landmarks.landmark[12] = Point(Num(-1), Num(Resolution + 1))
    /\ pose_landmarks.landmark[13] = Point(NoneCoord, Num(1))
    /\ pose_ret.leftShoulder = Dict(Num(0), Num(Resolution))
    /\ pose_ret.rightShoulder = Dict(NoneCoord, Num(1))
    /\ pose_ret.leftElbow.k = "None"
    /\ pose_ret.leftHip.k = "None"

----------------------------------------------------------------------------
(* Properties of a run *)

\* C5: a frame with no base64Image (absent, null or empty) gets a pose with
\* all twelve values null, and neither the decoder nor the detector is
\* called for it, whatever the frames before it produced.
C5_NoImageAllNull ==
    \A p \in 1..Len(InputFrames) :
        (InputFrames[p].isObject /\ ~SuppliesImage(InputFrames[p])) =>
            /\ \A c \in DOMAIN calls : calls[c].frame # p
            /\ p <= Len(out_frames) =>
                  /\ DOMAIN out_frames[p].pose = KnownNames
                  /\ AllNull(out_frames[p].pose)

\* a frame with a detected pose followed by a frame with an empty
\* base64Image, both in the output
C5_Witness ==
    /\ Len(out_frames) = 2
    /\ InputFrames[1].base64Image = "valid"
    /\ InputFrames[2].base64Image = ""
    /\ SomeDetected(out_frames[1].pose)
    /\ AllNull(out_frames[2].pose)
    /\ CallsOf("process", 1) # {}
    /\ CallsOf("decode_image", 2) = {}

\* C6: a frame whose image decodes and for which the detector reports no
\* pose (no result, or a result without pose_landmarks) gets a pose with all
\* twelve values null, and the run goes on to the next frame: no exception
\* is raised by that frame.
C6_NoPoseAllNull ==
    \A c \in DOMAIN calls :
        (calls[c].op = "process" /\ calls[c].ret \in {"None", "nopose"}) =>
            LET p == calls[c].frame
            IN  /\ p <= Len(out_frames)
                /\ DOMAIN out_frames[p].pose = KnownNames
                /\ AllNull(out_frames[p].pose)
                /\ i = p => (pc \in {"loop", "done"} /\ exc = "")
                /\ (pc = "done" /\ p < Len(InputFrames)) => i > p

\* a frame with a detected pose, then a frame in which the detector finds no
\* pose, then the end of a successful run
C6_Witness ==
    /\ Succeeded
    /\ Len(InputFrames) = 2
    /\ \E c \in CallsOf("process", 1) : calls[c].ret = "pose"
    /\ \E c \in CallsOf("process", 2) : calls[c].ret = "nopose"
    /\ SomeDetected(stdout[1][1].pose)
    /\ AllNull(stdout[1][2].pose)

\* the frame at position p made the run fail: its image was handed to the
\* decoder and was rejected, or the detector raised on it
BadFrame(p) ==
    \/ /\ CallsOf("decode_image", p) # {}
       /\ InputFrames[p].base64Image \in {"malformed", "corrupt"}
    \/ \E c \in CallsOf("process", p) : calls[c].ret = "raised"

OutcomeSuccess == Len(stdout) = 1 /\ stderr = <<>> /\ exit_status = "0"

OutcomeFailure == stdout = <<>> /\ Len(stderr) = 1 /\ exit_status = "1"

\* C8: every run ends, and it ends in exactly one of two outcomes: success
\* (one document on standard output, nothing on standard error, status 0) or
\* failure (the message on standard error, nothing on standard output,
\* status 1). No run prints the document and exits with status 1.
C8_TwoOutcomes ==
    /\ [](pc = "done" => (OutcomeSuccess \/ OutcomeFailure))
    /\ [](pc # "done" => (stdout = <<>> /\ stderr = <<>> /\ exit_status = "running"))
    /\ [](exc # "" => (pc \in {"except", "done"} /\ stdout = <<>> /\ exit_status # "0"))
    /\ <>(pc = "done")

\* a run that failed in the detector after a frame was processed, and
\* printed nothing
C8_Witness ==
    /\ pc = "done"
    /\ OutcomeFailure
    /\ exc = "RuntimeError"
    /\ Len(out_frames) = 1
    /\ \E c \in CallsOf("process", 2) : calls[c].ret = "raised"

NumberOfCalls(op) == Cardinality({c \in DOMAIN calls : calls[c].op = op})

\* the calls of the detector are in strict input order, at most one a frame
DetectorInOrder ==
    \A c, d \in DOMAIN calls :
        (calls[c].op = "process" /\ calls[d].op = "process" /\ c < d) =>
            calls[c].frame < calls[d].frame

\* C9 as stated: in any run the detector is constructed exactly once, before
\* the first frame, and called exactly once for each frame that supplies an
\* image and never for a frame that does not, in strict input order.
C9_AsStated ==
    pc = "done" =>
        /\ NumberOfCalls("Pose") = 1
        /\ calls[1].op = "Pose"
        /\ \A p \in 1..Len(InputFrames) :
              Cardinality(CallsOf("process", p)) =
                  IF SuppliesImage(InputFrames[p]) THEN 1 ELSE 0
        /\ DetectorInOrder

\* C9 as amended: in any run the detector is constructed at most once and
\* before any frame is decoded or processed; it is called at most once a
\* frame, only for frames that supply an image, in strict input order; and
\* in a run that succeeds it was constructed exactly once and called exactly
\* once for each frame that supplies an image.
C9_DetectorCalls ==
    /\ NumberOfCalls("Pose") <= 1
    /\ calls # <<>> => calls[1].op = "Pose"
    /\ pc \in {"loop", "done"} /\ exc = "" => NumberOfCalls("Pose") = 1
    /\ \A p \in 1..Len(InputFrames) :
          /\ Cardinality(CallsOf("process", p)) <= 1
          /\ ~SuppliesImage(InputFrames[p]) => CallsOf("process", p) = {}
    /\ DetectorInOrder
    /\ Succeeded =>
          \A p \in 1..Len(InputFrames) :
              SuppliesImage(InputFrames[p]) => Cardinality(CallsOf("process", p)) = 1

\* a successful run over a frame with an image and a frame without, and the
\* detector called for the first only
C9_Witness ==
    /\ Succeeded
    /\ Len(InputFrames) = 2
    /\ SuppliesImage(InputFrames[2])
    /\ ~SuppliesImage(InputFrames[1])
    /\ calls = <<Call("Pose", 0, ""), Call("decode_image", 2, ""), Call("process", 2, "pose")>>

====
